---- MODULE Spec2Model ----
\* A model of the remote image client of go-containerregistry:
\*   - transport.New, the registry authentication handshake
\*     (src/v1/remote/transport/transport.go), and
\*   - remote.Image and the accessors of the remote image
\*     (src/unnamed/part_000, package remote).
\* The registry, the network and the helpers of other packages (ping, the
\* bearer and basic transports, the v1 parsers) are the environment.
EXTENDS Integers, Sequences, FiniteSets, TLC

VARIABLES
    manifest,    \* registry: the manifest served at the reference
    config,      \* registry: the config file stored at manifest.config
    auth,        \* the authn.Authenticator the caller supplies
    phase,       \* "start", "ready" (Image returned an image), "failed"
    handshake,   \* what transport.New saw, did and returned
    client,      \* image.client.Transport
    call,        \* the last accessor call: inputs, requests, result
    push,        \* registry: the image another client pushes to the reference
    cli          \* the command-line process: arguments, output, exit status

vars == <<manifest, config, auth, phase, handshake, client, call, push, cli>>

----------------------------------------------------------------------------
\* Bounds and domains

MaxLayers == 2

Hashes == {"sha256:a", "sha256:b", "sha256:c"}

HashSeqs == UNION {[1..n -> Hashes] : n \in 0..MaxLayers}

\* v1.Descriptor, v1.Manifest and v1.ConfigFile, reduced to the fields the
\* remote image reads
Descriptors == [Digest : Hashes]

Manifests == [Config : Descriptors,
              Layers : UNION {[1..n -> Descriptors] : n \in 0..MaxLayers}]

ConfigFiles == [RootFS : [DiffIDs : HashSeqs]]

\* The images of the runs in which the reference is pushed to: config file
\* and manifest of one image, a diff ID for each layer
MaxTagLayers == 1

TagHashes == {"sha256:a", "sha256:b"}

TagImages ==
    {[manifest |-> m, config |-> c] :
        <<m, c>> \in {x \in [Config : [Digest : TagHashes],
                              Layers : UNION {[1..n -> [Digest : TagHashes]] :
                                                n \in 0..MaxTagLayers}]
                             \X [RootFS : [DiffIDs : UNION {[1..n -> TagHashes] :
                                                             n \in 0..MaxTagLayers}]] :
                         Len(x[1].Layers) = Len(x[2].RootFS.DiffIDs)}}

Auths == {"anonymous", "alice:secret"}

Nil == "nil"

Range(s) == {s[k] : k \in 1..Len(s)}

\* name.Reference as the code reads it: Context().Registry, RepositoryStr(),
\* Identifier()
ref == [registry |-> "registry.local", repository |-> "repo", identifier |-> "latest"]

\* The caller-supplied base http.RoundTripper
BaseTransport == [kind |-> "base"]

PullScope == "pull"

----------------------------------------------------------------------------
\* The registry and the network

\* What one request can meet: a 2xx answer, a non-2xx answer, or no answer
\* at all (the http client returns an error)
Statuses == {"ok", "non2xx", "neterr"}

ErrorBody == [kind |-> "error"]

\* The blobs the registry stores for the image m
StoredBlobs(m) == {m.Config.Digest} \cup {m.Layers[k].Digest : k \in 1..Len(m.Layers)}

\* The answer to GET /v2/{repo}/manifests/{ref} when the registry holds m
ManifestResponse(m, s) ==
    IF s = "ok"
    THEN [status |-> "ok", body |-> [kind |-> "manifest", doc |-> m]]
    ELSE [status |-> s, body |-> ErrorBody]

\* The answer to GET /v2/{repo}/blobs/{h}: a blob the registry does
\* not store is never answered with 2xx
BlobResponse(h, s) ==
    LET st == IF s = "ok" /\ h \notin StoredBlobs(manifest) THEN "non2xx" ELSE s
    IN  [status |-> st,
         digest |-> h,
         body   |-> IF st # "ok" THEN ErrorBody
                    ELSE IF h = manifest.Config.Digest
                         THEN [kind |-> "config", doc |-> config]
                         ELSE [kind |-> "layer", digest |-> h]]

\* The answer to HEAD /v2/{repo}/blobs/{h}: a Content-Length and an empty
\* body
HeadResponse(h, s) ==
    LET st == IF s = "ok" /\ h \notin StoredBlobs(manifest) THEN "non2xx" ELSE s
    IN  [status |-> st,
         digest |-> h,
         length |-> IF st = "ok" THEN [of |-> "blob", digest |-> h]
                    ELSE [of |-> "error", digest |-> h],
         body   |-> [kind |-> "empty"]]

----------------------------------------------------------------------------
\* transport.New: the authentication handshake

NoTransport == [kind |-> "nil"]

ParamNames == {"realm", "service"}

ParamValue(k) == IF k = "realm" THEN "https://auth.local/token" ELSE "registry-service"

ParamSets == {[k \in S |-> ParamValue(k)] : S \in SUBSET ParamNames}

NoParams == [k \in {} |-> ""]

Schemes == {"basic", "bearer", "negotiate"}

\* What the registry can answer to the ping of /v2/: 200, 401 with a
\* WWW-Authenticate header (scheme "" when the header cannot be parsed),
\* another status, or nothing (transport error)
PingOutcomes ==
    [status : {"200", "500", "neterr"}, scheme : {""}, params : {NoParams}]
    \cup [status : {"401"}, scheme : {""}, params : {NoParams}]
    \cup [status : {"401"}, scheme : {"basic", "negotiate"}, params : {[k \in {"realm"} |-> ParamValue(k)]}]
    \cup [status : {"401"}, scheme : {"bearer"}, params : ParamSets]

\* ping(reg, t): one GET of /v2/ through t, no credentials; classifies the
\* answer into a challenge and its parameters
ping(reg, t, o) ==
    LET req == [to |-> "ping", registry |-> reg, via |-> t,
                authorization |-> [scheme |-> "none", credential |-> ""]]
    IN  CASE o.status = "200" ->
               [pr |-> [challenge |-> "anonymous", parameters |-> NoParams],
                err |-> Nil, wire |-> <<req>>]
          [] o.status = "401" /\ o.scheme # "" ->
               [pr |-> [challenge |-> o.scheme, parameters |-> o.params],
                err |-> Nil, wire |-> <<req>>]
          [] OTHER ->
               [pr |-> [challenge |-> "", parameters |-> NoParams],
                err |-> "AuthHandshakeFailed", wire |-> <<req>>]

\* bearerTransport.refresh: one token exchange against bt.realm; on success
\* the transport holds the token
refresh(bt, exch) ==
    LET req == [to |-> "token", realm |-> bt.realm, service |-> bt.service,
                scope |-> bt.scope, credential |-> bt.basic, via |-> bt.inner,
                answer |-> exch]
    IN  IF exch = "ok"
        THEN [bt |-> [bt EXCEPT !.token = "token-1"], err |-> Nil, wire |-> <<req>>]
        ELSE [bt |-> bt, err |-> "TokenExchangeFailed", wire |-> <<req>>]

\* case anonymous, wrapping t as for a Basic challenge
AnonymousCaseWrapped(t) ==
    [tr |-> [kind |-> "basic", inner |-> t, auth |-> "anonymous"], err |-> Nil,
     wire |-> <<>>]

\* case anonymous
AnonymousCase(t) == [tr |-> t, err |-> Nil, wire |-> <<>>]

\* case basic, returning t without the credential
BasicCaseUnwrapped(au, t) == [tr |-> t, err |-> Nil, wire |-> <<>>]

\* case basic
BasicCase(au, t) ==
    [tr |-> [kind |-> "basic", inner |-> t, auth |-> au], err |-> Nil, wire |-> <<>>]

\* case bearer, the error of the initial refresh dropped
BearerCaseIgnoringRefresh(r, au, t, a, pr, exch) ==
    IF "realm" \notin DOMAIN pr.parameters
    THEN [tr |-> NoTransport, err |-> "malformed www-authenticate, missing realm",
          wire |-> <<>>]
    ELSE LET bt == [kind |-> "bearer", inner |-> t, basic |-> au,
                    realm |-> pr.parameters["realm"],
                    service |-> IF "service" \in DOMAIN pr.parameters
                                THEN pr.parameters["service"] ELSE r.registry,
                    scope |-> <<r.repository, a>>, token |-> ""]
             rf == refresh(bt, exch)
         IN  [tr |-> rf.bt, err |-> Nil, wire |-> rf.wire]

\* case bearer, the realm not required
BearerCaseWithoutRealmCheck(r, au, t, a, pr, exch) ==
    LET bt == [kind |-> "bearer", inner |-> t, basic |-> au,
               realm |-> IF "realm" \in DOMAIN pr.parameters
                         THEN pr.parameters["realm"] ELSE "",
               service |-> IF "service" \in DOMAIN pr.parameters
                           THEN pr.parameters["service"] ELSE r.registry,
               scope |-> <<r.repository, a>>, token |-> ""]
        rf == refresh(bt, exch)
    IN  IF rf.err # Nil
        THEN [tr |-> NoTransport, err |-> rf.err, wire |-> rf.wire]
        ELSE [tr |-> rf.bt, err |-> Nil, wire |-> rf.wire]

\* case bearer, the service always the registry
BearerCaseRegistryService(r, au, t, a, pr, exch) ==
    IF "realm" \notin DOMAIN pr.parameters
    THEN [tr |-> NoTransport, err |-> "malformed www-authenticate, missing realm",
          wire |-> <<>>]
    ELSE LET bt == [kind |-> "bearer", inner |-> t, basic |-> au,
                    realm |-> pr.parameters["realm"], service |-> r.registry,
                    scope |-> <<r.repository, a>>, token |-> ""]
             rf == refresh(bt, exch)
         IN  IF rf.err # Nil
             THEN [tr |-> NoTransport, err |-> rf.err, wire |-> rf.wire]
             ELSE [tr |-> rf.bt, err |-> Nil, wire |-> rf.wire]

\* case bearer
BearerCase(r, au, t, a, pr, exch) ==
    IF "realm" \notin DOMAIN pr.parameters
    THEN [tr |-> NoTransport, err |-> "malformed www-authenticate, missing realm",
          wire |-> <<>>]
    ELSE LET realm   == pr.parameters["realm"]
             service == IF "service" \in DOMAIN pr.parameters
                        THEN pr.parameters["service"]
                        ELSE r.registry
             bt == [kind |-> "bearer", inner |-> t, basic |-> au, realm |-> realm,
                    service |-> service, scope |-> <<r.repository, a>>,
                    token |-> ""]
             rf == refresh(bt, exch)
         IN  IF rf.err # Nil
             THEN [tr |-> NoTransport, err |-> rf.err, wire |-> rf.wire]
             ELSE [tr |-> rf.bt, err |-> Nil, wire |-> rf.wire]

\* default, falling back to t
DefaultCaseFallback(t, pr) == [tr |-> t, err |-> Nil, wire |-> <<>>]

\* default
DefaultCase(t, pr) ==
    [tr |-> NoTransport, err |-> "Unrecognized challenge", wire |-> <<>>]

New(r, au, t, a, o, exch) ==
    LET p == ping(r.registry, t, o)
    IN  IF p.err # Nil
        THEN [tr |-> NoTransport, err |-> p.err, wire |-> p.wire]
        ELSE LET b == CASE p.pr.challenge = "anonymous" -> AnonymousCase(t)
                        [] p.pr.challenge = "basic" -> BasicCase(au, t)
                        [] p.pr.challenge = "bearer" ->
                               BearerCase(r, au, t, a, p.pr, exch)
                        [] OTHER -> DefaultCase(t, p.pr)
             IN  [tr |-> b.tr, err |-> b.err, wire |-> p.wire \o b.wire]

----------------------------------------------------------------------------
\* package remote: the image and its accessors

NoValue == [kind |-> "none"]

\* The Authorization header the image's client puts on a request: none for
\* the base transport, the credential for a basicTransport, the current
\* token for a bearerTransport
Authorization(tr) ==
    CASE tr.kind = "basic"  -> [scheme |-> "Basic", credential |-> tr.auth]
      [] tr.kind = "bearer" -> [scheme |-> "Bearer", credential |-> tr.token]
      [] OTHER              -> [scheme |-> "none", credential |-> ""]

\* A request for i.url(resource, identifier), sent with i.client
Request(method, resource, identifier) ==
    [method |-> method, resource |-> resource, identifier |-> identifier,
     authorization |-> Authorization(client)]

\* What a request sent through the bearer transport can meet: as Statuses,
\* or a 401
RoundTripStatuses == Statuses \cup {"401"}

\* bearerTransport.RoundTrip retrying as long as the answer is 401, here
\* twice
bearerRoundTripRetryingAgain(bt, req, s1, exch, s2) ==
    IF s1 # "401"
    THEN [val |-> [kind |-> "response", status |-> s1],
          err |-> IF s1 = "neterr" THEN "transport error" ELSE Nil,
          reqs |-> <<req>>, resps |-> <<[status |-> s1]>>, exchanges |-> <<>>,
          bt |-> bt]
    ELSE IF refresh(bt, exch).err # Nil
    THEN [val |-> NoValue, err |-> refresh(bt, exch).err,
          reqs |-> <<req>>, resps |-> <<[status |-> s1]>>,
          exchanges |-> refresh(bt, exch).wire, bt |-> bt]
    ELSE IF s2 # "401"
    THEN [val |-> [kind |-> "response", status |-> s2],
          err |-> IF s2 = "neterr" THEN "transport error" ELSE Nil,
          reqs |-> <<req, req>>, resps |-> <<[status |-> s1], [status |-> s2]>>,
          exchanges |-> refresh(bt, exch).wire, bt |-> refresh(bt, exch).bt]
    ELSE [val |-> [kind |-> "response", status |-> "ok"], err |-> Nil,
          reqs |-> <<req, req, req>>,
          resps |-> <<[status |-> s1], [status |-> s2], [status |-> "ok"]>>,
          exchanges |-> refresh(bt, exch).wire \o refresh(bt, exch).wire,
          bt |-> refresh(bt, exch).bt]

\* bearerTransport.RoundTrip: the request with the current token; on a 401
\* one token exchange and the request once more with the new token; a
\* second 401 is an error
bearerRoundTrip(bt, req, s1, exch, s2) ==
    IF s1 # "401"
    THEN [val |-> [kind |-> "response", status |-> s1],
          err |-> IF s1 = "neterr" THEN "transport error" ELSE Nil,
          reqs |-> <<req>>, resps |-> <<[status |-> s1]>>, exchanges |-> <<>>,
          bt |-> bt]
    ELSE IF refresh(bt, exch).err # Nil
    THEN [val |-> NoValue, err |-> refresh(bt, exch).err,
          reqs |-> <<req>>, resps |-> <<[status |-> s1]>>,
          exchanges |-> refresh(bt, exch).wire, bt |-> bt]
    ELSE [val |-> IF s2 \in {"401", "neterr"} THEN NoValue
                  ELSE [kind |-> "response", status |-> s2],
          err |-> CASE s2 = "401" -> "authentication failure"
                    [] s2 = "neterr" -> "transport error"
                    [] OTHER -> Nil,
          reqs |-> <<req, req>>, resps |-> <<[status |-> s1], [status |-> s2]>>,
          exchanges |-> refresh(bt, exch).wire, bt |-> refresh(bt, exch).bt]

\* v1.ParseManifest: the registry's error document has no config digest
ParseManifest(body) ==
    IF body.kind = "manifest"
    THEN [val |-> [kind |-> "manifest", doc |-> body.doc], err |-> Nil]
    ELSE [val |-> NoValue, err |-> "InvalidManifest"]

\* v1.ParseConfigFile: an error document that is well-formed JSON decodes
\* to a config file without diff IDs (json), anything else fails
ParseConfigFile(body, json) ==
    CASE body.kind = "config" ->
           [val |-> [kind |-> "config", doc |-> body.doc], err |-> Nil]
      [] body.kind = "error" /\ json ->
           [val |-> [kind |-> "config", doc |-> [RootFS |-> [DiffIDs |-> <<>>]]],
            err |-> Nil]
      [] OTHER -> [val |-> NoValue, err |-> "InvalidConfig"]

\* What an accessor leaves behind: its value and error, the requests it
\* sent and their answers in order, and the response bodies still open
Return(val, err, reqs, resps, open) ==
    [val |-> val, err |-> err, reqs |-> reqs, resps |-> resps, open |-> open]

Manifest(m, s) ==
    LET req  == Request("GET", "manifests", ref.identifier)
        resp == ManifestResponse(m, s)
    IN  IF s = "neterr"
        THEN Return(NoValue, "transport error", <<req>>, <<resp>>, {})
        ELSE LET p == ParseManifest(resp.body)
             IN  Return(p.val, p.err, <<req>>, <<resp>>, {})

\* FSLayers, the digests in the opposite order
FSLayersReversed(m, s) ==
    IF Manifest(m, s).err # Nil
    THEN [Manifest(m, s) EXCEPT !.val = NoValue]
    ELSE [Manifest(m, s) EXCEPT !.val =
            [kind |-> "hashes",
             seq  |-> [k \in 1..Len(m.Layers) |->
                         m.Layers[Len(m.Layers) + 1 - k].Digest]]]

FSLayers(m, s) ==
    LET r == Manifest(m, s)
    IN  IF r.err # Nil
        THEN [r EXCEPT !.val = NoValue]
        ELSE [r EXCEPT !.val =
                [kind |-> "hashes",
                 seq  |-> [k \in 1..Len(r.val.doc.Layers) |-> r.val.doc.Layers[k].Digest]]]

ConfigName(m, s) ==
    LET r == Manifest(m, s)
    IN  IF r.err # Nil
        THEN [r EXCEPT !.val = NoValue]
        ELSE [r EXCEPT !.val = [kind |-> "hash", hash |-> r.val.doc.Config.Digest]]

BlobSize(h, s) ==
    LET req  == Request("HEAD", "blobs", h)
        resp == HeadResponse(h, s)
    IN  IF s = "neterr"
        THEN Return([kind |-> "size", length |-> -1], "transport error",
                    <<req>>, <<resp>>, {})
        ELSE Return([kind |-> "size", length |-> resp.length], Nil,
                    <<req>>, <<resp>>, {resp})

Blob(h, s) ==
    LET req  == Request("GET", "blobs", h)
        resp == BlobResponse(h, s)
    IN  IF s = "neterr"
        THEN Return(NoValue, "transport error", <<req>>, <<resp>>, {})
        ELSE Return([kind |-> "stream", of |-> resp], Nil, <<req>>, <<resp>>, {resp})

ConfigFile(m, s1, s2, json) ==
    LET n == ConfigName(m, s1)
    IN  IF n.err # Nil
        THEN Return(NoValue, n.err, n.reqs, n.resps, n.open)
        ELSE LET b == Blob(n.val.hash, s2)
             IN  IF b.err # Nil
                 THEN Return(NoValue, b.err, n.reqs \o b.reqs, n.resps \o b.resps,
                             n.open \cup b.open)
                 ELSE LET p == ParseConfigFile(b.val.of.body, json)
                      IN  Return(p.val, p.err, n.reqs \o b.reqs, n.resps \o b.resps,
                                 (n.open \cup b.open) \ {b.val.of})

DiffIDs(m, s1, s2, json) ==
    LET c == ConfigFile(m, s1, s2, json)
    IN  IF c.err # Nil
        THEN [c EXCEPT !.val = NoValue]
        ELSE [c EXCEPT !.val = [kind |-> "hashes", seq |-> c.val.doc.RootFS.DiffIDs]]

\* BlobSet without the config digest
BlobSetLayersOnly(m1, s1, m2, s2) ==
    LET layers == FSLayers(m1, s1)
    IN  IF layers.err # Nil
        THEN Return(NoValue, layers.err, layers.reqs, layers.resps, layers.open)
        ELSE LET cn == ConfigName(m2, s2)
             IN  IF cn.err # Nil
                 THEN Return(NoValue, cn.err, layers.reqs \o cn.reqs,
                             layers.resps \o cn.resps, layers.open \cup cn.open)
                 ELSE Return([kind |-> "set", set |-> Range(layers.val.seq)], Nil,
                             layers.reqs \o cn.reqs, layers.resps \o cn.resps,
                             layers.open \cup cn.open)

BlobSet(m1, s1, m2, s2) ==
    LET layers == FSLayers(m1, s1)
    IN  IF layers.err # Nil
        THEN Return(NoValue, layers.err, layers.reqs, layers.resps, layers.open)
        ELSE LET set == Range(layers.val.seq)
                 cn  == ConfigName(m2, s2)
             IN  IF cn.err # Nil
                 THEN Return(NoValue, cn.err, layers.reqs \o cn.reqs,
                             layers.resps \o cn.resps, layers.open \cup cn.open)
                 ELSE Return([kind |-> "set", set |-> set \cup {cn.val.hash}], Nil,
                             layers.reqs \o cn.reqs, layers.resps \o cn.resps,
                             layers.open \cup cn.open)

\* v1.SHA256 of the response body, whatever it holds
Digest(m, s) ==
    LET req  == Request("GET", "manifests", ref.identifier)
        resp == ManifestResponse(m, s)
    IN  IF s = "neterr"
        THEN Return(NoValue, "transport error", <<req>>, <<resp>>, {})
        ELSE Return([kind |-> "sha256", of |-> resp.body], Nil, <<req>>, <<resp>>, {})

MediaType == Return([kind |-> "mediatype", type |-> "OCIManifestSchema1"], Nil,
                    <<>>, <<>>, {})

\* The least position of h in seq, 0 when it has none: the range loop
\* returns at the first match
FirstIndex(seq, h) ==
    IF \E k \in 1..Len(seq) : seq[k] = h
    THEN CHOOSE k \in 1..Len(seq) :
             seq[k] = h /\ \A j \in 1..(k - 1) : seq[j] # h
    ELSE 0

\* What r returns, as the return of the accessor that called it last after
\* its own requests reqs, their answers resps and the bodies open it holds
After(reqs, resps, open, r) ==
    Return(r.val, r.err, reqs \o r.reqs, resps \o r.resps, open \cup r.open)

\* The loop of Layer over layers, and what it returns, after the requests
\* reqs and their answers resps
LayerLoop(h, layers, diffids, reqs, resps, open, s4) ==
    IF FirstIndex(layers, h) = 0
    THEN Return(NoValue, "could not find Layer by diffid", reqs, resps, open)
    ELSE IF FirstIndex(layers, h) > Len(diffids)
    THEN Return(NoValue, "panic: index out of range", reqs, resps, open)
    ELSE After(reqs, resps, open, Blob(diffids[FirstIndex(layers, h)], s4))

\* Layer once FSLayers returned layers and DiffIDs, if called, diffids
LayerWith(h, layers, diffids, s4) ==
    IF layers.err # Nil
    THEN Return(NoValue, layers.err, layers.reqs, layers.resps, layers.open)
    ELSE IF diffids.err # Nil
    THEN Return(NoValue, diffids.err, layers.reqs \o diffids.reqs,
                layers.resps \o diffids.resps, layers.open \cup diffids.open)
    ELSE LayerLoop(h, layers.val.seq, diffids.val.seq, layers.reqs \o diffids.reqs,
                   layers.resps \o diffids.resps, layers.open \cup diffids.open, s4)

Layer(h, m1, s1, m2, s2, s3, json, s4) ==
    LayerWith(h, FSLayers(m1, s1), DiffIDs(m2, s2, s3, json), s4)

\* UncompressedBlob answered as Blob answers
UncompressedBlobAsBlob(h) == Blob(h, "ok")

UncompressedBlob(h) ==
    Return(NoValue, "NYI: remote.UncompressedBlob", <<>>, <<>>, {})

UncompressedLayer(h) ==
    Return(NoValue, "NYI: remote.UncompressedLayer", <<>>, <<>>, {})

----------------------------------------------------------------------------
\* The state machine: one session of one caller

NoCall == [op |-> "none", arg |-> "", val |-> NoValue, err |-> Nil,
           reqs |-> <<>>, resps |-> <<>>, open |-> {}, exchanges |-> <<>>]

NoImage == [manifest |-> [Config |-> [Digest |-> ""], Layers |-> <<>>],
            config   |-> [RootFS |-> [DiffIDs |-> <<>>]]]

\* Nobody pushes to the reference
NoPush == [state |-> "none", image |-> NoImage, replaced |-> NoImage]

\* No command-line process
NoCli == [pc |-> "off", args |-> <<>>, printed |-> NoValue, diag |-> "", exit |-> 0]

\* os.Args after the program name: a subcommand and a reference string,
\* or fewer
Subcommands == {"config", "manifest", "help"}

RefStrings == {"", "registry.local/repo:latest", "!bad"}

ArgLists ==
    {<<>>} \cup {<<c>> : c \in Subcommands}
           \cup {<<c, a>> : c \in Subcommands, a \in RefStrings}

\* parseReference: name.NewTag, then name.NewDigest, of the string
parseReference(arg) ==
    IF arg = "registry.local/repo:latest"
    THEN [ref |-> ref, err |-> Nil]
    ELSE [ref |-> NoValue, err |-> "could not parse reference"]

\* What the session remembers of the handshake: the registry's answer to
\* the ping, what ping made of it, and what New returned and sent
NoHandshake == [ping |-> [status |-> "", scheme |-> "", params |-> NoParams],
                pr |-> [challenge |-> "", parameters |-> NoParams], perr |-> Nil,
                tr |-> NoTransport, err |-> Nil, wire |-> <<>>]

Init ==
    /\ manifest \in Manifests
    /\ config \in ConfigFiles
    /\ auth \in Auths
    /\ phase = "start"
    /\ handshake = NoHandshake
    /\ client = NoTransport
    /\ call = NoCall
    /\ push = NoPush
    /\ cli = NoCli

\* The session of a reference that another client is about to push a
\* different image to
InitTag ==
    /\ \E i \in TagImages : manifest = i.manifest /\ config = i.config
    /\ auth \in Auths
    /\ phase = "start"
    /\ handshake = NoHandshake
    /\ client = NoTransport
    /\ call = NoCall
    /\ push \in [state : {"pending"}, image : TagImages, replaced : {NoImage}]
    /\ push.image # [manifest |-> manifest, config |-> config]
    /\ cli = NoCli

\* remote.Image, the client on the base transport whatever New returned
ImageOnBaseTransport ==
    /\ phase = "start"
    /\ \E o \in PingOutcomes, exch \in {"ok", "fail"} :
         /\ handshake' =
               [ping |-> o,
                pr   |-> ping(ref.registry, BaseTransport, o).pr,
                perr |-> ping(ref.registry, BaseTransport, o).err,
                tr   |-> New(ref, auth, BaseTransport, PullScope, o, exch).tr,
                err  |-> New(ref, auth, BaseTransport, PullScope, o, exch).err,
                wire |-> New(ref, auth, BaseTransport, PullScope, o, exch).wire]
         /\ phase' = IF New(ref, auth, BaseTransport, PullScope, o, exch).err # Nil
                     THEN "failed" ELSE "ready"
         /\ client' = IF New(ref, auth, BaseTransport, PullScope, o, exch).err # Nil
                      THEN NoTransport ELSE BaseTransport
    /\ UNCHANGED <<manifest, config, auth, call, push, cli>>

\* remote.Image: the handshake, then the image around the transport it
\* returned, or the handshake's error and no image
Image ==
    /\ phase = "start"
    /\ \E o \in PingOutcomes, exch \in {"ok", "fail"} :
         LET r == New(ref, auth, BaseTransport, PullScope, o, exch)
             p == ping(ref.registry, BaseTransport, o)
         IN  /\ handshake' = [ping |-> o, pr |-> p.pr, perr |-> p.err,
                               tr |-> r.tr, err |-> r.err, wire |-> r.wire]
             /\ phase' = IF r.err # Nil THEN "failed" ELSE "ready"
             /\ client' = IF r.err # Nil THEN NoTransport ELSE r.tr
    /\ UNCHANGED <<manifest, config, auth, call, push, cli>>

\* The caller calls an accessor of the image and gets r back; an index out
\* of range ends the process
Returns(op, arg, r) ==
    /\ call' = [op |-> op, arg |-> arg, val |-> r.val, err |-> r.err,
                reqs |-> r.reqs, resps |-> r.resps, open |-> r.open,
                exchanges |-> <<>>]
    /\ phase' = IF r.err = "panic: index out of range" THEN "crashed" ELSE phase
    /\ UNCHANGED <<manifest, config, auth, handshake, client, push, cli>>

\* What the registry answered the first manifest request of a call with:
\* its manifest, or, while a push is landing, the manifest of before the
\* push when the request was ahead of it
ServedFirst ==
    IF push.state = "landing" THEN {push.replaced.manifest, manifest}
    ELSE {manifest}

Idle == phase = "ready" /\ call.op = "none"

\* What the request after one answered s can meet: the accessors stop at a
\* manifest request that was not answered with 2xx, and at a blob request
\* that was not answered at all
AfterManifest(s) == IF s = "ok" THEN Statuses ELSE {"unsent"}

AfterBlob(s, json) ==
    IF s = "ok" \/ (s = "non2xx" /\ json) THEN Statuses ELSE {"unsent"}

\* Whether an error document is well-formed JSON matters only when one is
\* served
Documents(s) == IF s = "non2xx" THEN BOOLEAN ELSE {FALSE}

\* Manifest answered from the manifest of before the push
CallManifestStale ==
    /\ phase = "ready" /\ call.op = "none"
    /\ \E s \in Statuses :
         Returns("Manifest", "",
                 Manifest(IF push.state \in {"landing", "landed"}
                          THEN push.replaced.manifest ELSE manifest, s))

CallManifest ==
    /\ Idle
    /\ \E s \in Statuses : Returns("Manifest", "", Manifest(manifest, s))

CallFSLayers ==
    /\ Idle
    /\ \E s \in Statuses : Returns("FSLayers", "", FSLayers(manifest, s))

CallDiffIDs ==
    /\ Idle
    /\ \E s1 \in Statuses : \E s2 \in AfterManifest(s1) : \E json \in Documents(s2) :
         Returns("DiffIDs", "", DiffIDs(manifest, s1, s2, json))

CallConfigName ==
    /\ Idle
    /\ \E s \in Statuses : Returns("ConfigName", "", ConfigName(manifest, s))

CallBlobSet ==
    /\ Idle
    /\ \E m1 \in ServedFirst :
         \E s1 \in Statuses : \E s2 \in AfterManifest(s1) :
           Returns("BlobSet", "", BlobSet(m1, s1, manifest, s2))

CallDigest ==
    /\ Idle
    /\ \E s \in Statuses : Returns("Digest", "", Digest(manifest, s))

CallMediaType ==
    /\ Idle
    /\ Returns("MediaType", "", MediaType)

CallConfigFile ==
    /\ Idle
    /\ \E s1 \in Statuses : \E s2 \in AfterManifest(s1) : \E json \in Documents(s2) :
         Returns("ConfigFile", "", ConfigFile(manifest, s1, s2, json))

CallBlobSize ==
    /\ Idle
    /\ \E h \in Hashes, s \in Statuses : Returns("BlobSize", h, BlobSize(h, s))

CallBlob ==
    /\ Idle
    /\ \E h \in Hashes, s \in Statuses : Returns("Blob", h, Blob(h, s))

CallLayer ==
    /\ Idle
    /\ \E m1 \in ServedFirst :
       \E h \in Hashes, s1 \in Statuses :
       \E s2 \in AfterManifest(s1) : \E s3 \in AfterManifest(s2) :
       \E json \in Documents(s3) : \E s4 \in AfterBlob(s3, json) :
         Returns("Layer", h, Layer(h, m1, s1, manifest, s2, s3, json, s4))

CallUncompressedBlob ==
    /\ Idle
    /\ \E h \in Hashes : Returns("UncompressedBlob", h, UncompressedBlob(h))

CallUncompressedLayer ==
    /\ Idle
    /\ \E h \in Hashes : Returns("UncompressedLayer", h, UncompressedLayer(h))

\* The caller is done with the result of the last call and may call
\* again; a push that was landing has landed
Resume ==
    /\ phase = "ready"
    /\ call.op # "none"
    /\ call' = NoCall
    /\ push' = IF push.state = "landing" THEN [push EXCEPT !.state = "landed"]
               ELSE push
    /\ UNCHANGED <<manifest, config, auth, phase, handshake, client, cli>>

\* A request sent through the bearer transport that New returned
CallRoundTrip ==
    /\ Idle
    /\ client.kind = "bearer"
    /\ \E s1 \in RoundTripStatuses :
       \E exch \in (IF s1 = "401" THEN {"ok", "fail"} ELSE {"unsent"}) :
       \E s2 \in (IF exch = "ok" THEN RoundTripStatuses ELSE {"unsent"}) :
         /\ call' = [op |-> "RoundTrip", arg |-> "", open |-> {},
                     val |-> bearerRoundTrip(client, Request("GET", "manifests", ref.identifier), s1, exch, s2).val,
                     err |-> bearerRoundTrip(client, Request("GET", "manifests", ref.identifier), s1, exch, s2).err,
                     reqs |-> bearerRoundTrip(client, Request("GET", "manifests", ref.identifier), s1, exch, s2).reqs,
                     resps |-> bearerRoundTrip(client, Request("GET", "manifests", ref.identifier), s1, exch, s2).resps,
                     exchanges |-> bearerRoundTrip(client, Request("GET", "manifests", ref.identifier), s1, exch, s2).exchanges]
         /\ client' = bearerRoundTrip(client, Request("GET", "manifests", ref.identifier), s1, exch, s2).bt
    /\ UNCHANGED <<manifest, config, auth, phase, handshake, push, cli>>

\* The other client's push reaches the registry, between two calls or
\* behind the first request of the next one
UpdateTag ==
    /\ Idle
    /\ push.state = "pending"
    /\ manifest' = push.image.manifest
    /\ config' = push.image.config
    /\ push' = [state |-> "landing", image |-> push.image,
                replaced |-> [manifest |-> manifest, config |-> config]]
    /\ UNCHANGED <<auth, phase, handshake, client, call, cli>>

Next ==
    \/ Image
    \/ CallManifest
    \/ CallFSLayers
    \/ CallDiffIDs
    \/ CallConfigName
    \/ CallBlobSet
    \/ CallDigest
    \/ CallMediaType
    \/ CallConfigFile
    \/ CallBlobSize
    \/ CallBlob
    \/ CallLayer
    \/ CallUncompressedBlob
    \/ CallUncompressedLayer
    \/ CallRoundTrip
    \/ Resume

Spec == Init /\ [][Next]_vars

\* The process of the command line starts with its arguments
InitCLI ==
    /\ \E i \in TagImages : manifest = i.manifest /\ config = i.config
    /\ auth \in Auths
    /\ phase = "process"
    /\ handshake = NoHandshake
    /\ client = NoTransport
    /\ call = NoCall
    /\ push = NoPush
    /\ cli \in [pc : {"main"}, args : ArgLists, printed : {NoValue},
                 diag : {""}, exit : {0}]

\* The process ends with this exit status, output and diagnostic
Exit(status, printed, diag) ==
    cli' = [cli EXCEPT !.pc = "exited", !.exit = status,
                       !.printed = printed, !.diag = diag]

\* main up to the call of remote.Image: the switch on os.Args[1], the test
\* of os.Args[2], parseReference and the keychain's Resolve
MainStart ==
    /\ cli.pc = "main"
    /\ \E resolves \in BOOLEAN :
         IF Len(cli.args) < 1
         THEN Exit(2, NoValue, "panic: index out of range") /\ UNCHANGED phase
         ELSE IF cli.args[1] \notin {"config", "manifest"}
         THEN Exit(1, NoValue, "unexpected subcommand") /\ UNCHANGED phase
         ELSE IF Len(cli.args) < 2
         THEN Exit(2, NoValue, "panic: index out of range") /\ UNCHANGED phase
         ELSE IF cli.args[2] = ""
         THEN Exit(0, NoValue, "") /\ UNCHANGED phase
         ELSE IF parseReference(cli.args[2]).err # Nil
         THEN Exit(1, NoValue, parseReference(cli.args[2]).err) /\ UNCHANGED phase
         ELSE IF ~resolves
         THEN Exit(1, NoValue, "could not resolve credentials") /\ UNCHANGED phase
         ELSE /\ cli' = [cli EXCEPT !.pc = "image"]
              /\ phase' = "start"
    /\ UNCHANGED <<manifest, config, auth, handshake, client, call, push>>

\* printConfig calls ConfigFile of the image
MainConfigFile ==
    /\ cli.pc = "image"
    /\ cli.args[1] = "config"
    /\ CallConfigFile

\* printManifest calls Manifest of the image
MainManifest ==
    /\ cli.pc = "image"
    /\ cli.args[1] = "manifest"
    /\ CallManifest

\* log.Fatalln of the error of remote.Image or of the accessor, or
\* fmt.Println of the document and the return from main
MainExit ==
    /\ cli.pc = "image"
    /\ \/ /\ phase = "failed"
          /\ Exit(1, NoValue, handshake.err)
       \/ /\ call.op # "none"
          /\ call.err # Nil
          /\ Exit(1, NoValue, call.err)
       \/ /\ call.op # "none"
          /\ call.err = Nil
          /\ Exit(0, call.val, "")
    /\ UNCHANGED <<manifest, config, auth, phase, handshake, client, call, push>>

NextCLI ==
    \/ MainStart
    \/ Image
    \/ MainConfigFile
    \/ MainManifest
    \/ MainExit

SpecCLI == InitCLI /\ [][NextCLI]_vars

\* The accessors that request the manifest, with a push to the reference
NextTag ==
    \/ Image
    \/ UpdateTag
    \/ CallManifest
    \/ CallBlobSet
    \/ CallLayer
    \/ Resume

SpecTag == InitTag /\ [][NextTag]_vars

----------------------------------------------------------------------------
\* Properties of the handshake

Shaken == handshake.ping.status # ""

TokenExchanges == {k \in 1..Len(handshake.wire) : handshake.wire[k].to = "token"}

BearerWithRealm ==
    /\ Shaken
    /\ handshake.perr = Nil
    /\ handshake.pr.challenge = "bearer"
    /\ "realm" \in DOMAIN handshake.pr.parameters

\* C2: on a Bearer challenge with a realm, New exchanges a token after the
\* ping and before it returns; it returns a bearer transport only when the
\* exchange succeeded, and the error and no transport when it failed
C2_ExchangeBeforeBearerTransport ==
    /\ BearerWithRealm =>
          /\ TokenExchanges = {2}
          /\ Len(handshake.wire) = 2
          /\ handshake.wire[2].answer = "ok" =>
                /\ handshake.err = Nil
                /\ handshake.tr.kind = "bearer"
                /\ handshake.tr.token # ""
                /\ client = handshake.tr
          /\ handshake.wire[2].answer # "ok" =>
                /\ handshake.err # Nil
                /\ handshake.tr = NoTransport
                /\ client = NoTransport
                /\ phase = "failed"
    /\ client.kind = "bearer" =>
          \E k \in TokenExchanges : handshake.wire[k].answer = "ok"

C2_Witness ==
    /\ BearerWithRealm
    /\ phase = "ready"
    /\ client.kind = "bearer"
    /\ call.op = "Manifest"

\* C3: on a Bearer challenge without a realm, New fails, returns no
\* transport and sends no token exchange
C3_MissingRealmFails ==
    ( /\ Shaken
      /\ handshake.perr = Nil
      /\ handshake.pr.challenge = "bearer"
      /\ "realm" \notin DOMAIN handshake.pr.parameters )
    => /\ handshake.err # Nil
       /\ handshake.tr = NoTransport
       /\ client = NoTransport
       /\ phase = "failed"
       /\ TokenExchanges = {}

C3_Witness ==
    /\ handshake.pr.challenge = "bearer"
    /\ DOMAIN handshake.pr.parameters = {"service"}
    /\ phase = "failed"

\* C4: when the ping is answered with HTTP 200, New succeeds with the base
\* transport itself, without a token exchange, and no request of the image
\* carries an Authorization header
C4_AnonymousUsesBaseTransport ==
    (Shaken /\ handshake.ping.status = "200")
    => /\ handshake.err = Nil
       /\ handshake.tr = BaseTransport
       /\ client = BaseTransport
       /\ phase # "failed"
       /\ Len(handshake.wire) = 1
       /\ TokenExchanges = {}
       /\ \A k \in 1..Len(call.reqs) : call.reqs[k].authorization.scheme = "none"

C4_Witness ==
    /\ handshake.ping.status = "200"
    /\ auth = "alice:secret"
    /\ call.op = "ConfigFile"
    /\ Len(call.reqs) = 2

\* C5: on a Basic challenge, New succeeds without a token exchange with a
\* transport that wraps the base transport with the supplied credential, and
\* every request of the image carries the Basic header of that credential
C5_BasicWrapsWithCredential ==
    (Shaken /\ handshake.perr = Nil /\ handshake.pr.challenge = "basic")
    => /\ handshake.err = Nil
       /\ handshake.tr = [kind |-> "basic", inner |-> BaseTransport, auth |-> auth]
       /\ client = handshake.tr
       /\ phase # "failed"
       /\ TokenExchanges = {}
       /\ \A k \in 1..Len(call.reqs) :
             call.reqs[k].authorization = [scheme |-> "Basic", credential |-> auth]

C5_Witness ==
    /\ handshake.pr.challenge = "basic"
    /\ auth = "alice:secret"
    /\ call.op = "Layer"
    /\ Len(call.reqs) = 4

\* C6: when the ping fails or the challenge is none of anonymous, basic and
\* bearer, New returns an error and no transport and sends nothing after
\* the ping; New returns a transport or an error, never both, never neither
C6_FailedHandshakeReturnsOnlyError ==
    Shaken =>
       /\ ( \/ handshake.perr # Nil
            \/ handshake.pr.challenge \notin {"anonymous", "basic", "bearer"} )
          => /\ handshake.err # Nil
             /\ handshake.tr = NoTransport
             /\ Len(handshake.wire) = 1
             /\ handshake.wire[1].to = "ping"
             /\ phase = "failed"
       /\ (handshake.err # Nil) <=> (handshake.tr = NoTransport)

C6_Witness ==
    /\ Shaken
    /\ handshake.perr = Nil
    /\ handshake.pr.challenge = "negotiate"
    /\ phase = "failed"

----------------------------------------------------------------------------
\* Properties of the image accessors

\* Layer(h) returned after the registry served it a manifest to each of its
\* two manifest requests and the config file
LayerSawImage ==
    /\ call.op = "Layer"
    /\ Len(call.resps) >= 3
    /\ \A k \in 1..3 : call.resps[k].status = "ok"

\* The layer digests L of the manifest and the diff IDs D of the config
\* file that this call of Layer was served
ServedLayers ==
    [k \in 1..Len(call.resps[1].body.doc.Layers) |->
        call.resps[1].body.doc.Layers[k].Digest]

ServedDiffIDs == call.resps[3].body.doc.RootFS.DiffIDs

\* C1: with as many diff IDs as layers, Layer(D[i]) fetches the blob at
\* L[i], the layer digest at the position of the requested diff ID
C1_LayerFetchesDigestAtDiffIDPosition ==
    ( /\ LayerSawImage
      /\ Len(ServedLayers) = Len(ServedDiffIDs)
      /\ call.arg \in Range(ServedDiffIDs) )
    => /\ Len(call.reqs) = 4
       /\ call.reqs[4].method = "GET"
       /\ call.reqs[4].resource = "blobs"
       /\ \E i \in 1..Len(ServedDiffIDs) :
             /\ ServedDiffIDs[i] = call.arg
             /\ call.reqs[4].identifier = ServedLayers[i]

\* C7: a successful BlobSet over one manifest returns the set of exactly
\* its config digest and its layer digests
C7_BlobSetIsConfigAndLayers ==
    ( /\ call.op = "BlobSet"
      /\ call.err = Nil
      /\ call.resps[1].body.doc = call.resps[2].body.doc )
    => LET m == call.resps[1].body.doc
       IN  /\ call.val.kind = "set"
           /\ \A d \in Hashes :
                 d \in call.val.set <=>
                    \/ d = m.Config.Digest
                    \/ \E k \in 1..Len(m.Layers) : m.Layers[k].Digest = d
           /\ Cardinality(call.val.set) <= Len(m.Layers) + 1

\* BlobSet returned the blobs of a manifest of two layers whose digests are
\* not all different
C7_Witness ==
    /\ call.op = "BlobSet"
    /\ call.err = Nil
    /\ Len(call.resps[1].body.doc.Layers) = 2
    /\ Cardinality(call.val.set) = 2
    /\ call.resps[1].body.doc.Config.Digest
          \notin {call.resps[1].body.doc.Layers[k].Digest : k \in 1..2}

\* C8: for a hash h that is no diff ID of the config, Layer(h) returns the
\* not-found error and fetches no layer blob
C8_UnknownDiffIDNotFound ==
    (LayerSawImage /\ call.arg \notin Range(ServedDiffIDs))
    => /\ call.err = "could not find Layer by diffid"
       /\ Len(call.reqs) = 3

\* C9: an accessor that was answered with a non-2xx status returns an
\* error
C9_Non2xxIsAnError ==
    ( /\ call.op \in {"Manifest", "Digest", "ConfigFile", "Blob", "BlobSize"}
      /\ \E k \in 1..Len(call.resps) : call.resps[k].status = "non2xx" )
    => call.err # Nil

\* C10: when an accessor has returned, every response body it obtained is
\* closed, except the stream it handed to the caller
C10_NoBodyLeftOpen ==
    call.open \subseteq (IF call.val.kind = "stream" THEN {call.val.of} ELSE {})

\* C11: UncompressedBlob(h) and UncompressedLayer(h) fail with the
\* not-supported error for every h, return no stream and send no request
C11_UncompressedNotSupported ==
    /\ call.op = "UncompressedBlob" =>
          /\ call.err = "NYI: remote.UncompressedBlob"
          /\ call.val = NoValue
          /\ call.reqs = <<>>
          /\ call.open = {}
    /\ call.op = "UncompressedLayer" =>
          /\ call.err = "NYI: remote.UncompressedLayer"
          /\ call.val = NoValue
          /\ call.reqs = <<>>
          /\ call.open = {}

\* UncompressedBlob returned for a blob the registry stores
C11_Witness ==
    /\ call.op = "UncompressedBlob"
    /\ call.arg \in StoredBlobs(manifest)

\* C13: FSLayers returns the manifest's layer digests in manifest order,
\* one per layer, and DiffIDs returns the config file's diff IDs as they are
C13_LayersAndDiffIDsInOrder ==
    /\ (call.op = "FSLayers" /\ call.resps[1].status = "ok") =>
          /\ call.err = Nil
          /\ call.val.kind = "hashes"
          /\ Len(call.val.seq) = Len(call.resps[1].body.doc.Layers)
          /\ \A k \in 1..Len(call.val.seq) :
                call.val.seq[k] = call.resps[1].body.doc.Layers[k].Digest
    /\ ( /\ call.op = "DiffIDs"
         /\ Len(call.resps) = 2
         /\ call.resps[2].status = "ok" ) =>
          /\ call.err = Nil
          /\ call.val.kind = "hashes"
          /\ call.val.seq = call.resps[2].body.doc.RootFS.DiffIDs

\* FSLayers returned two different digests
C13_Witness ==
    /\ call.op = "FSLayers"
    /\ call.err = Nil
    /\ Len(call.val.seq) = 2
    /\ call.val.seq[1] # call.val.seq[2]

\* C14: in the bearer case the token exchange is sent to the challenge's
\* realm, for the challenge's service when it names one and for the
\* registry of the reference when it does not
C14_ServiceDefaultsToRegistry ==
    BearerWithRealm =>
       /\ Len(handshake.wire) = 2
       /\ handshake.wire[2].to = "token"
       /\ handshake.wire[2].realm = handshake.pr.parameters["realm"]
       /\ handshake.wire[2].service =
             IF "service" \in DOMAIN handshake.pr.parameters
             THEN handshake.pr.parameters["service"]
             ELSE ref.registry
       /\ handshake.err = Nil =>
             /\ handshake.tr.realm = handshake.wire[2].realm
             /\ handshake.tr.service = handshake.wire[2].service

\* A bearer transport for a challenge that names no service
C14_Witness ==
    /\ BearerWithRealm
    /\ "service" \notin DOMAIN handshake.pr.parameters
    /\ client.kind = "bearer"
    /\ client.service = "registry.local"

\* The requests of the handshake that are pings
Pings == {k \in 1..Len(handshake.wire) : handshake.wire[k].to = "ping"}

\* C17: a session sends one ping, first of all its requests, through the
\* base transport and without credentials, and every request of the image
\* goes through the transport New returned
C17_OnePingThenOneTransport ==
    /\ ~Shaken =>
          /\ handshake.wire = <<>>
          /\ call.reqs = <<>>
    /\ Shaken =>
          /\ Pings = {1}
          /\ handshake.wire[1].via = BaseTransport
          /\ handshake.wire[1].authorization.scheme = "none"
          /\ handshake.err = Nil => client = handshake.tr
          /\ handshake.err # Nil => call.reqs = <<>>
          /\ \A k \in 1..Len(call.reqs) :
                call.reqs[k].authorization = Authorization(handshake.tr)

\* An accessor of an image behind a Basic challenge sent two requests
C17_Witness ==
    /\ Shaken
    /\ handshake.pr.challenge = "basic"
    /\ call.op = "ConfigFile"
    /\ Len(call.reqs) = 2

\* C18: ConfigFile requests the manifest and then the blob at that
\* manifest's config digest; a manifest request that fails ends it with
\* the error and without a blob request, and a blob request that fails
\* ends it with the error and without anything decoded
C18_ConfigFileStopsAtFailedFetch ==
    call.op = "ConfigFile" =>
       /\ call.reqs[1].resource = "manifests"
       /\ call.resps[1].status # "ok" =>
             /\ call.err # Nil
             /\ Len(call.reqs) = 1
       /\ call.resps[1].status = "ok" =>
             /\ Len(call.reqs) = 2
             /\ call.reqs[2].method = "GET"
             /\ call.reqs[2].resource = "blobs"
             /\ call.reqs[2].identifier = call.resps[1].body.doc.Config.Digest
             /\ call.resps[2].status # "ok" =>
                   /\ call.err \notin {Nil, "InvalidConfig"}
                   /\ call.val = NoValue

\* C19: Layer(h) ends with a stream or an error for every manifest and
\* config file the registry serves, never with an index out of range
C19_LayerNeverIndexesOutOfRange ==
    /\ call.op = "Layer" => call.err # "panic: index out of range"
    /\ phase # "crashed"

\* C15: a request through the bearer transport that is answered 401
\* causes one token exchange and is sent once more; a second 401 is
\* returned as an error; no request is sent more than twice and no more
\* than one token is asked for
C15_One401OneExchangeOneRetry ==
    call.op = "RoundTrip" =>
       /\ Len(call.reqs) \in 1..2
       /\ Len(call.exchanges) <= 1
       /\ Len(call.resps) = Len(call.reqs)
       /\ \A k \in 1..Len(call.reqs) : call.reqs[k] = call.reqs[1]
       /\ call.resps[1].status # "401" =>
             /\ Len(call.reqs) = 1
             /\ call.exchanges = <<>>
       /\ call.resps[1].status = "401" =>
             /\ Len(call.exchanges) = 1
             /\ call.exchanges[1].to = "token"
             /\ Len(call.reqs) = (IF call.exchanges[1].answer = "ok" THEN 2 ELSE 1)
       /\ (Len(call.resps) = 2 /\ call.resps[2].status = "401") =>
             /\ call.err # Nil
             /\ call.val = NoValue

\* A request was answered 401 twice
C15_Witness ==
    /\ call.op = "RoundTrip"
    /\ Len(call.resps) = 2
    /\ call.resps[1].status = "401"
    /\ call.resps[2].status = "401"
    /\ Len(call.exchanges) = 1
    /\ call.err # Nil

\* C12: every call of Manifest sends one GET for the manifest of the
\* reference and, answered, returns the manifest the registry holds at
\* that moment, whatever an earlier call returned and whether or not the
\* reference was pushed to in between
C12_ManifestIsFetchedAgain ==
    [][(call.op = "none" /\ call'.op = "Manifest") =>
          /\ Len(call'.reqs) = 1
          /\ call'.reqs[1].method = "GET"
          /\ call'.reqs[1].resource = "manifests"
          /\ call'.reqs[1].identifier = ref.identifier
          /\ call'.resps[1].status = "ok" =>
                /\ call'.err = Nil
                /\ call'.val.doc = manifest
                /\ call'.val.doc = manifest']_vars

\* Manifest returned the manifest of a push that replaced another one
C12_Witness ==
    /\ push.state \in {"landing", "landed"}
    /\ push.image.manifest # push.replaced.manifest
    /\ call.op = "Manifest"
    /\ call.err = Nil
    /\ call.val.doc = push.image.manifest

\* C20: with a push to the reference during the call, a successful
\* BlobSet is the blob set of one manifest that the registry served, and
\* the layers and the diff IDs that Layer matches by position are those
\* of one image
C20_ResultOfOneVersion ==
    /\ (call.op = "BlobSet" /\ call.err = Nil) =>
          \E k \in 1..Len(call.resps) :
             call.val.set = StoredBlobs(call.resps[k].body.doc)
    /\ LayerSawImage => call.resps[1].body.doc = call.resps[2].body.doc

\* The document that the subcommand asks for, as the registry holds it
Requested ==
    IF cli.args[1] = "config" THEN [kind |-> "config", doc |-> config]
    ELSE [kind |-> "manifest", doc |-> manifest]

\* C16: the process ends either with status zero and the requested
\* document printed, or with a non-zero status, a diagnostic and nothing
\* printed
C16_ZeroExitOnlyWithDocument ==
    cli.pc = "exited" =>
       \/ /\ cli.exit = 0
          /\ Len(cli.args) = 2
          /\ cli.args[1] \in {"config", "manifest"}
          /\ cli.printed = Requested
       \/ /\ cli.exit # 0
          /\ cli.diag # ""
          /\ cli.printed = NoValue

====
